---------------------------- MODULE Spec2Model ----------------------------
(***************************************************************************)
(* A model of the perception pipeline of the Clash Royale bot:             *)
(* VisionSystem (src/vision/vision_system.py).                             *)
(*                                                                         *)
(* Images are records [h, w, px]: px[y+1][x+1] is the pixel in row y,      *)
(* column x (the source's 0-based coordinates; sequences are 1-based).     *)
(* A colour frame holds <<b, g, r>> triples and has a third field, c, its   *)
(* number of channels; a grayscale image holds numbers and has no c.       *)
(* An absent image or template (Python's None) is the value None, and a    *)
(* coordinate (x, y) is the record [x, y].                                 *)
(*                                                                         *)
(* Scale.  The source works on a 720x1280 screen with 8-bit pixels.  The   *)
(* model keeps every computation of the source (grayscale conversion, 5x5  *)
(* Gaussian blur, normalised correlation at every alignment, first         *)
(* maximum, threshold, centre, ROI crop and remapping) and shrinks only    *)
(* the data: the reference screen is RefW x RefH model pixels, the ROIs    *)
(* keep their place on it, and a pixel has the values 0..MaxPix.           *)
(***************************************************************************)
EXTENDS Integers, Sequences, FiniteSets, TLC

\* Python's None: an absent image, template, frame or result.
None == [none |-> TRUE]

\* The outcome of a call that ends in an exception instead of a value.
Raised(what) == [raised |-> what]
IsRaised(v) == "raised" \in DOMAIN v

\* ------------------------------------------------------------------ bounds

\* Brightest pixel value of the model (the source's images are 8-bit).
MaxPix == 15
\* Width and height, in model pixels, of the reference screen.
RefW == 6
RefH == 10
\* How many sprites a synthetic frame holds at most.
MaxSprites == 2
\* Brightest pixel of the small images the Region Matcher is exercised on.
MaxLevel == 2

\* --------------------------------------------------------------- geometry

\* (left, top, right, bottom); the source's (50, 1050, 670, 1230) on its
\* 720x1280 screen: inset from both sides, a band near the bottom edge.
hand_roi == <<1, 7, 5, 9>>

\* The source's (0, 150, 720, 1000): full width, from below the top bar to
\* above the hand.
battlefield_roi == <<0, 1, 6, 7>>

\* The overlap added below the middle of the battlefield (50 in the source).
EnemyOverlap == 1

\* The upper half of battlefield_roi plus the overlap.
enemy_field_roi ==
    << battlefield_roi[1], battlefield_roi[2], battlefield_roi[3],
       battlefield_roi[2] + ((battlefield_roi[4] - battlefield_roi[2]) \div 2) + EnemyOverlap >>

\* ------------------------------------------------------------ arithmetic

Max(a, b) == IF a >= b THEN a ELSE b
Min(a, b) == IF a <= b THEN a ELSE b

\* The sum of f[i] over i in lo..hi.
RECURSIVE SumTo(_, _, _)
SumTo(f, lo, hi) == IF lo > hi THEN 0 ELSE f[hi] + SumTo(f, lo, hi - 1)

\* The rows of an h-by-w image whose pixel in row y, column x (from 1) is
\* F(y, x).  (s \o << >> is s: it makes TLC hold the pixels as values instead
\* of computing a pixel again each time it is read.)
Grid(h, w, F(_, _)) == [y \in 1..h |-> [x \in 1..w |-> F(y, x)] \o << >>] \o << >>

\* ---------------------------------------------------------- preprocessing

\* cv2.cvtColor(image, COLOR_BGR2GRAY) of one pixel: OpenCV's fixed-point
\* luma, (4899 R + 9617 G + 1868 B + 2^13) >> 14.
BGR2GRAY(p) == (p[3] * 4899 + p[2] * 9617 + p[1] * 1868 + 8192) \div 16384

\* What cv2.cvtColor(..., COLOR_BGR2GRAY) accepts: an image that is there, is
\* not empty and has three or four channels.
Convertible(img) ==
    /\ img # None
    /\ "c" \in DOMAIN img /\ img.c \in {3, 4}
    /\ img.h * img.w > 0

cvtColor(img) ==
    LET luma(y, x) == BGR2GRAY(img.px[y][x])
    IN IF ~Convertible(img) THEN Raised("cv2.error")
       ELSE [h |-> img.h, w |-> img.w, px |-> Grid(img.h, img.w, luma)]

\* OpenCV's borderInterpolate for BORDER_REFLECT_101 (GaussianBlur's default
\* border): index p of a line of n pixels, reflected about the edge pixels.
RECURSIVE borderInterpolate(_, _)
borderInterpolate(p, n) ==
    IF n = 1 THEN 0
    ELSE IF p < 0 THEN borderInterpolate(0 - p, n)
    ELSE IF p >= n THEN borderInterpolate(2 * n - 2 - p, n)
    ELSE p

\* The 5-tap Gaussian kernel OpenCV uses for ksize 5, sigma 0: (1 4 6 4 1)/16.
GaussKernel == <<1, 4, 6, 4, 1>>

\* cv2.GaussianBlur(gray, (5, 5), 0) on an 8-bit image: the separable kernel
\* applied in both directions, rounded to nearest (halves up).
GaussianBlur(img) ==
    LET at(y, x) == img.px[borderInterpolate(y - 1, img.h) + 1][borderInterpolate(x - 1, img.w) + 1]
        row(y, x) == SumTo([j \in 1..5 |-> GaussKernel[j] * at(y, x + j - 3)], 1, 5)
        rows == Grid(img.h, img.w, row)
        col(y, x) == SumTo([i \in 1..5 |->
                        GaussKernel[i] * rows[borderInterpolate(y + i - 4, img.h) + 1][x]], 1, 5)
        rounded(y, x) == (col(y, x) + 128) \div 256
    IN [h |-> img.h, w |-> img.w, px |-> Grid(img.h, img.w, rounded)]

\* VisionSystem._preprocess_image: an error of the conversion is not caught.
preprocess_image(image_np) ==
    LET gray_image == cvtColor(image_np)
    IN IF IsRaised(gray_image) THEN gray_image ELSE GaussianBlur(gray_image)

\* ------------------------------------------------------- Region Matcher

\* A correlation score is a pair <<n, d>> with d > 0 that stands for the real
\* number n / sqrt(d); all comparisons of scores are exact.
ScoreGE(a, b) ==
    IF a[1] >= 0 /\ b[1] < 0 THEN TRUE
    ELSE IF a[1] < 0 /\ b[1] >= 0 THEN FALSE
    ELSE IF a[1] >= 0 THEN a[1] * a[1] * b[2] >= b[1] * b[1] * a[2]
    ELSE a[1] * a[1] * b[2] <= b[1] * b[1] * a[2]

\* A threshold is a fraction <<p, q>>, q > 0 (0.7 is <<7, 10>>): as a score.
AsScore(threshold) == <<threshold[1], threshold[2] * threshold[2]>>

\* The pixels of an image as one sequence, row by row.
Flat(img) == [k \in 1..(img.h * img.w) |-> img.px[((k - 1) \div img.w) + 1][((k - 1) % img.w) + 1]]

\* The window of S under T when T's top-left corner is at (x, y), row by row.
Window(S, T, x, y) ==
    [k \in 1..(T.h * T.w) |-> S.px[y + ((k - 1) \div T.w) + 1][x + ((k - 1) % T.w) + 1]]

\* n * sum(a b) - sum(a) sum(b): n times the covariance sum of two pixel lists.
Cov(a, b) ==
    LET n == Len(a)
    IN n * SumTo([k \in 1..n |-> a[k] * b[k]], 1, n) - SumTo(a, 1, n) * SumTo(b, 1, n)

\* The entry with a window of uniform intensity scored 1 instead of 0.
CCoeffNormed_FlatWindowOne(S, T, x, y) ==
    LET t == Flat(T)
        i == Window(S, T, x, y)
        vt == Cov(t, t)
        vi == Cov(i, i)
    IN IF vt = 0 \/ vi = 0 THEN <<1, 1>>
       ELSE <<Cov(t, i), vt * vi>>

\* One entry of cv2.matchTemplate(S, T, TM_CCOEFF_NORMED): the correlation of
\* the mean-free template with the mean-free window at (x, y).  A template of
\* uniform intensity has no variance and OpenCV sets every entry to 1; a
\* window of uniform intensity under any other template scores 0.
CCoeffNormed(S, T, x, y) ==
    LET t == Flat(T)
        i == Window(S, T, x, y)
        vt == Cov(t, t)
        vi == Cov(i, i)
    IN IF vt = 0 THEN <<1, 1>>
       ELSE IF vi = 0 THEN <<0, 1>>
       ELSE <<Cov(t, i), vt * vi>>

\* The alignments of T in S, as (x, y) of T's top-left corner.
Alignments(S, T) == (0..(S.w - T.w)) \X (0..(S.h - T.h))

\* res = cv2.matchTemplate(S, T, cv2.TM_CCOEFF_NORMED): res[y+1][x+1].  OpenCV
\* rejects a template that is larger than the image with cv2.error.
matchTemplate(S, T) ==
    LET entry(y, x) == CCoeffNormed(S, T, x - 1, y - 1)
    IN IF T.h > S.h \/ T.w > S.w THEN Raised("cv2.error")
       ELSE [res |-> Grid(S.h - T.h + 1, S.w - T.w + 1, entry)]

\* The maximum with the place of the minimum: min_loc taken for max_loc.
minMaxLoc_MinLoc(res) ==
    LET cols == Len(res[1])
        locs == (0..(cols - 1)) \X (0..(Len(res) - 1))
        val(a) == res[a[2] + 1][a[1] + 1]
        rank(a) == a[2] * cols + a[1]
        highest == CHOOSE a \in locs : \A b \in locs : ScoreGE(val(a), val(b))
        lowest == CHOOSE a \in locs : \A b \in locs :
                    IF rank(b) < rank(a) THEN ~ScoreGE(val(a), val(b))
                    ELSE ScoreGE(val(b), val(a))
    IN [max_val |-> val(highest), max_loc |-> lowest]

\* cv2.minMaxLoc(res): the maximum and the first place that holds it, scanning
\* row by row and each row from the left: the place whose entry is greater
\* than every entry scanned before it and not less than any scanned after it.
minMaxLoc(res) ==
    LET cols == Len(res[1])
        locs == (0..(cols - 1)) \X (0..(Len(res) - 1))
        val(a) == res[a[2] + 1][a[1] + 1]
        rank(a) == a[2] * cols + a[1]
        first == CHOOSE a \in locs : \A b \in locs :
                    IF rank(b) < rank(a) THEN ~ScoreGE(val(b), val(a))
                    ELSE ScoreGE(val(a), val(b))
    IN [max_val |-> val(first), max_loc |-> first]

\* The comparison with the threshold made strict.
BestMatch_Strict(screen_image_gray, template, threshold) ==
    LET res == matchTemplate(screen_image_gray, template)
        m == minMaxLoc(res.res)
    IN IF IsRaised(res) THEN res
       ELSE IF ~ScoreGE(AsScore(threshold), m.max_val)
       THEN [x |-> m.max_loc[1] + (template.w \div 2), y |-> m.max_loc[2] + (template.h \div 2)]
       ELSE None

\* Lines 215-223 of _find_template: match, take the best alignment, compare
\* its score with the threshold, and return the centre of the template there.
BestMatch(screen_image_gray, template, threshold) ==
    LET res == matchTemplate(screen_image_gray, template)
        m == minMaxLoc(res.res)
    IN IF IsRaised(res) THEN res
       ELSE IF ScoreGE(m.max_val, AsScore(threshold))
       THEN [x |-> m.max_loc[1] + (template.w \div 2), y |-> m.max_loc[2] + (template.h \div 2)]
       ELSE None

\* _find_template without the comparison of the shapes.
find_template_Unguarded(screen_image_gray, template, threshold) ==
    IF template = None \/ screen_image_gray = None THEN None
    ELSE BestMatch(screen_image_gray, template, threshold)

\* VisionSystem._find_template: the centre (x, y) of the best alignment of the
\* template in the image when its score reaches the threshold, else None.
find_template(screen_image_gray, template, threshold) ==
    IF template = None \/ screen_image_gray = None THEN None
    ELSE IF template.h > screen_image_gray.h \/ template.w > screen_image_gray.w THEN None
    ELSE BestMatch(screen_image_gray, template, threshold)

\* ------------------------------------------------------------ templates

\* A grayscale image from its rows.
Img(rows) == [h |-> Len(rows), w |-> Len(rows[1]), px |-> rows]

\* Template art: intensity rising to the right, to the left, downwards and
\* upwards, a checker, a uniform patch, and a column taller than the hand ROI.
GradRight == Img(<< <<0, MaxPix>>, <<0, MaxPix>> >>)
GradLeft  == Img(<< <<MaxPix, 0>>, <<MaxPix, 0>> >>)
GradDown  == Img(<< <<0, 0>>, <<MaxPix, MaxPix>> >>)
GradUp    == Img(<< <<MaxPix, MaxPix>>, <<0, 0>> >>)
Checker   == Img(<< <<MaxPix, 0>>, <<0, MaxPix>> >>)
Uniform   == Img(<< <<MaxPix, MaxPix>>, <<MaxPix, MaxPix>> >>)
Column    == Img(<< <<0>>, <<MaxPix>>, <<0>> >>)

\* dict.get(key): the value stored under key, else None.  A namespace whose
\* order matters (cards, enemy units) is the sequence of its items.
DictGet(d, key) == IF key \in DOMAIN d THEN d[key] ELSE None

Names(items) == [k \in 1..Len(items) |-> items[k].name]

ItemsGet(items, key) ==
    IF \E k \in 1..Len(items) : items[k].name = key
    THEN items[CHOOSE k \in 1..Len(items) : items[k].name = key].template
    ELSE None

\* ---------------------------------------------------------------- state

VARIABLES
    card_templates,        \* VisionSystem.card_templates: items in dict order
    ui_templates,          \* VisionSystem.ui_templates: name -> template
    enemy_unit_templates,  \* VisionSystem.enemy_unit_templates: items in dict order
    latest_screenshot,     \* VisionSystem.latest_screenshot: a frame or None
    call,                  \* the last call of the vision API: [op, arg, ret]
    classified,            \* history: the first classification on record,
                           \* [frame, state, later], later telling whether
                           \* another frame has been processed since; None
                           \* before it; Unrecorded when no record is kept
    bot,                   \* BotLoop: [pc, running, current_state], the locals
                           \* screen_image, game_info and action of the tick,
                           \* trace, the calls of the tick so far, and before,
                           \* what current_state was when the tick began; NoBot
                           \* where the vision API is called without the loop
    pending                \* an analysis whose matches run as tasks: [pc,
                           \* image, processed, cards, enemies, order], cards
                           \* and enemies holding the result of each task
                           \* that has run, order the tasks as they finished;
                           \* NoTasks where the analyzer runs its own loops

vars == <<card_templates, ui_templates, enemy_unit_templates, latest_screenshot, call,
          classified, bot, pending>>

templates == <<card_templates, ui_templates, enemy_unit_templates>>

Unrecorded == [recorded |-> FALSE]

NoBot == [pc |-> "none"]

NoTasks == [pc |-> "none"]

\* The record after a call that processes the frame image_np.
Record(image_np, state) ==
    IF classified = Unrecorded THEN Unrecorded
    ELSE IF classified = None THEN [frame |-> image_np, state |-> state, later |-> FALSE]
    ELSE [classified EXCEPT !.later = @ \/ image_np # classified.frame]

\* core/game_states.py
INITIALIZING == "INITIALIZING"
ON_MENU == "ON_MENU"
IN_BATTLE == "IN_BATTLE"
POST_GAME == "POST_GAME"
STOPPED == "STOPPED"
GameState == {INITIALIZING, ON_MENU, IN_BATTLE, POST_GAME, STOPPED}

\* The thresholds the callers of _find_template pass: 0.7, 0.85, 0.85, 0.8.
UiThreshold == <<7, 10>>
CardThreshold == <<17, 20>>
UnitThreshold == <<17, 20>>
LocateThreshold == <<4, 5>>

\* ------------------------------------------------------ Phase Classifier

\* A rule that looks at the screenshot stored by the call before, when there
\* is one, instead of the frame it is given.
UiFound_Stale(processed_screen, name) ==
    LET template == DictGet(ui_templates, name)
        screen == IF latest_screenshot = None THEN processed_screen
                  ELSE preprocess_image(latest_screenshot)
    IN template # None /\ find_template(screen, template, UiThreshold) # None

\* One rule of get_current_game_state: the template is loaded and found.
UiFound(processed_screen, name) ==
    LET template == DictGet(ui_templates, name)
    IN template # None /\ find_template(processed_screen, template, UiThreshold) # None

\* The rules with the play button consulted before the battle indicator.
DetectState_PlayFirst(processed_screen) ==
    IF UiFound(processed_screen, "Play Button") THEN ON_MENU
    ELSE IF UiFound(processed_screen, "Battle Indicator") THEN IN_BATTLE
    ELSE IF UiFound(processed_screen, "OK Button") THEN POST_GAME
    ELSE IF UiFound(processed_screen, "Home Button") THEN ON_MENU
    ELSE IN_BATTLE

\* The rules with the menu as the fallback.
DetectState_MenuFallback(processed_screen) ==
    IF UiFound(processed_screen, "Battle Indicator") THEN IN_BATTLE
    ELSE IF UiFound(processed_screen, "Play Button") THEN ON_MENU
    ELSE IF UiFound(processed_screen, "OK Button") THEN POST_GAME
    ELSE ON_MENU

\* The rules with a template that is not loaded ending the chain: the rules
\* after it are not consulted.
DetectState_AbsentStops(processed_screen) ==
    LET absent(name) == DictGet(ui_templates, name) = None
    IN IF absent("Battle Indicator") THEN IN_BATTLE
       ELSE IF UiFound(processed_screen, "Battle Indicator") THEN IN_BATTLE
       ELSE IF absent("Play Button") THEN IN_BATTLE
       ELSE IF UiFound(processed_screen, "Play Button") THEN ON_MENU
       ELSE IF absent("OK Button") THEN IN_BATTLE
       ELSE IF UiFound(processed_screen, "OK Button") THEN POST_GAME
       ELSE IF absent("Home Button") THEN IN_BATTLE
       ELSE IF UiFound(processed_screen, "Home Button") THEN ON_MENU
       ELSE IN_BATTLE

\* The rules with STOPPED for a screen that none of them knows.
DetectState_StoppedFallback(processed_screen) ==
    IF UiFound(processed_screen, "Battle Indicator") THEN IN_BATTLE
    ELSE IF UiFound(processed_screen, "Play Button") THEN ON_MENU
    ELSE IF UiFound(processed_screen, "OK Button") THEN POST_GAME
    ELSE IF UiFound(processed_screen, "Home Button") THEN ON_MENU
    ELSE STOPPED

\* The rules of get_current_game_state in their order, and the fallback.
DetectState(processed_screen) ==
    IF UiFound(processed_screen, "Battle Indicator") THEN IN_BATTLE
    ELSE IF UiFound(processed_screen, "Play Button") THEN ON_MENU
    ELSE IF UiFound(processed_screen, "OK Button") THEN POST_GAME
    ELSE IF UiFound(processed_screen, "Home Button") THEN ON_MENU
    ELSE IN_BATTLE

\* VisionSystem.get_current_game_state(image_np)
get_current_game_state(image_np) ==
    /\ latest_screenshot' = image_np
    /\ call' = [op |-> "get_current_game_state", arg |-> image_np,
                ret |-> LET processed_screen == preprocess_image(image_np)
                        IN IF IsRaised(processed_screen) THEN processed_screen
                           ELSE DetectState(processed_screen)]
    /\ classified' = Record(image_np, call'.ret)
    /\ UNCHANGED templates

\* ------------------------------------------------------- Scene Analyzer

\* a[lo:hi] on an axis of n entries, for lo, hi >= 0: the first index taken
\* and how many are taken.
SliceFrom(lo, n) == Min(lo, n)
SliceLen(lo, hi, n) == Max(0, Min(hi, n) - Min(lo, n))

\* processed_image[max(0, top):min(h, bottom), max(0, left):min(w, right)]
Crop(img, roi) ==
    LET x0 == SliceFrom(Max(0, roi[1]), img.w)
        y0 == SliceFrom(Max(0, roi[2]), img.h)
        cw == SliceLen(Max(0, roi[1]), Min(img.w, roi[3]), img.w)
        ch == SliceLen(Max(0, roi[2]), Min(img.h, roi[4]), img.h)
        pixel(y, x) == img.px[y0 + y][x0 + x]
    IN [h |-> ch, w |-> cw, px |-> Grid(ch, cw, pixel)]

\* ndarray.size
Size(img) == img.h * img.w

\* The ROI-relative coordinate passed on as it is.
Remap_NoOffset(found_pos_in_roi, x_start, y_start) ==
    [x |-> found_pos_in_roi.x, y |-> found_pos_in_roi.y]

\* From ROI-relative to full-screen coordinates.
Remap(found_pos_in_roi, x_start, y_start) ==
    [x |-> found_pos_in_roi.x + x_start, y |-> found_pos_in_roi.y + y_start]

\* The loop with every new match put in front of the earlier ones.
RECURSIVE MatchItems_Prepend(_, _, _, _, _, _)
MatchItems_Prepend(roi_image, items, k, threshold, roi, detected) ==
    IF k > Len(items) THEN detected
    ELSE LET found_pos_in_roi == find_template(roi_image, items[k].template, threshold)
         IN MatchItems_Prepend(roi_image, items, k + 1, threshold, roi,
                IF found_pos_in_roi # None
                THEN <<[name |-> items[k].name,
                        position |-> Remap(found_pos_in_roi, roi[1], roi[2])]>> \o detected
                ELSE detected)

\* The loop reporting every alignment of a template that reaches the
\* threshold, not only the best one.
RECURSIVE MatchItems_EveryAlignment(_, _, _, _, _, _)
MatchItems_EveryAlignment(roi_image, items, k, threshold, roi, detected) ==
    IF k > Len(items) THEN detected
    ELSE LET T == items[k].template
             cols == roi_image.w - T.w + 1
             rows == roi_image.h - T.h + 1
             scan == IF cols <= 0 \/ rows <= 0 THEN << >>
                     ELSE [r \in 1..(cols * rows) |-> <<(r - 1) % cols, (r - 1) \div cols>>]
             good(a) == ScoreGE(CCoeffNormed(roi_image, T, a[1], a[2]), AsScore(threshold))
             hits == SelectSeq(scan, good)
         IN MatchItems_EveryAlignment(roi_image, items, k + 1, threshold, roi,
                detected \o [n \in 1..Len(hits) |->
                    [name |-> items[k].name,
                     position |-> Remap([x |-> hits[n][1] + (T.w \div 2),
                                         y |-> hits[n][2] + (T.h \div 2)], roi[1], roi[2])]])

\* The loop over a template namespace: items k.. are still to be matched
\* against the ROI image, detected holds the matches so far.
RECURSIVE MatchItems(_, _, _, _, _, _)
MatchItems(roi_image, items, k, threshold, roi, detected) ==
    IF k > Len(items) THEN detected
    ELSE LET found_pos_in_roi == find_template(roi_image, items[k].template, threshold)
         IN MatchItems(roi_image, items, k + 1, threshold, roi,
                IF found_pos_in_roi # None
                THEN Append(detected, [name |-> items[k].name,
                                       position |-> Remap(found_pos_in_roi, roi[1], roi[2])])
                ELSE detected)

\* The cards found in the hand ROI, the whole frame being searched when the
\* ROI is empty.
detected_cards_in_hand_WholeFrame(processed_image) ==
    LET roi_image_hand == Crop(processed_image, hand_roi)
        found == IF Size(roi_image_hand) = 0
                 THEN MatchItems(processed_image, card_templates, 1, CardThreshold,
                                 <<0, 0, processed_image.w, processed_image.h>>, << >>)
                 ELSE MatchItems(roi_image_hand, card_templates, 1, CardThreshold, hand_roi, << >>)
    IN [k \in 1..Len(found) |->
            [name |-> found[k].name, position |-> found[k].position,
             elixir_cost |-> 3, type |-> "unit"]]

\* Lines 292-327: the cards found in the hand ROI.
detected_cards_in_hand(processed_image) ==
    LET roi_image_hand == Crop(processed_image, hand_roi)
        found == IF Size(roi_image_hand) = 0 THEN << >>
                 ELSE MatchItems(roi_image_hand, card_templates, 1, CardThreshold, hand_roi, << >>)
    IN [k \in 1..Len(found) |->
            [name |-> found[k].name, position |-> found[k].position,
             elixir_cost |-> 3, type |-> "unit"]]

\* Lines 348-380: the enemy units found in the enemy-field ROI.
detected_opponent_units(processed_image) ==
    LET roi_image_enemy_field == Crop(processed_image, enemy_field_roi)
        found == IF Size(roi_image_enemy_field) = 0 THEN << >>
                 ELSE MatchItems(roi_image_enemy_field, enemy_unit_templates, 1, UnitThreshold,
                                 enemy_field_roi, << >>)
    IN [k \in 1..Len(found) |->
            [name |-> found[k].name, position |-> found[k].position,
             health |-> 100, type |-> "unit"]]

\* Lines 407-415: game_info.
game_info(processed_image) ==
    [player_units |-> << >>,
     opponent_units |-> detected_opponent_units(processed_image),
     cards_in_hand |-> detected_cards_in_hand(processed_image),
     current_elixir |-> 10,
     player_tower_health |-> [king |-> 3000, left |-> 2000, right |-> 2000],
     opponent_tower_health |-> [king |-> 3000, left |-> 2000, right |-> 2000],
     game_time_seconds |-> 60]

\* analyze_battlefield without the assignment to latest_screenshot.
analyze_battlefield_NoStore(image_np) ==
    /\ call' = [op |-> "analyze_battlefield", arg |-> image_np,
                ret |-> LET processed_image == preprocess_image(image_np)
                        IN IF IsRaised(processed_image) THEN processed_image
                           ELSE game_info(processed_image)]
    /\ classified' = IF classified = None THEN None ELSE Record(image_np, None)
    /\ UNCHANGED <<templates, latest_screenshot>>

\* cv2.rectangle(image, (x1, y1), (x2, y2), color): the outline of the ROI.
Rectangle(image, roi, color) ==
    LET pixel(y, x) ==
            IF /\ roi[1] <= x - 1 /\ x - 1 <= roi[3]
               /\ roi[2] <= y - 1 /\ y - 1 <= roi[4]
               /\ (x - 1 \in {roi[1], roi[3]} \/ y - 1 \in {roi[2], roi[4]})
            THEN color ELSE image.px[y][x]
    IN [image EXCEPT !.px = Grid(image.h, image.w, pixel)]

\* An analyzer that draws the outline of the hand ROI on the frame it is
\* given instead of on a copy.
analyze_battlefield_DrawInPlace(image_np) ==
    LET processed_image == preprocess_image(image_np)
    IN /\ latest_screenshot' = IF IsRaised(processed_image) THEN image_np
                                ELSE Rectangle(image_np, hand_roi, <<0, MaxPix, MaxPix>>)
       /\ call' = [op |-> "analyze_battlefield", arg |-> image_np,
                   ret |-> IF IsRaised(processed_image) THEN processed_image
                           ELSE game_info(processed_image)]
       /\ classified' = IF classified = None THEN None ELSE Record(image_np, None)
       /\ UNCHANGED templates

\* An analyzer that catches the error of the conversion and returns nothing.
analyze_battlefield_Swallow(image_np) ==
    /\ latest_screenshot' = image_np
    /\ call' = [op |-> "analyze_battlefield", arg |-> image_np,
                ret |-> LET processed_image == preprocess_image(image_np)
                        IN IF IsRaised(processed_image) THEN None
                           ELSE game_info(processed_image)]
    /\ classified' = IF classified = None THEN None ELSE Record(image_np, None)
    /\ UNCHANGED templates

\* VisionSystem.analyze_battlefield(image_np); the debug overlays are drawn
\* on copies of the frame and written to files, which the model leaves out.
analyze_battlefield(image_np) ==
    /\ latest_screenshot' = image_np
    /\ call' = [op |-> "analyze_battlefield", arg |-> image_np,
                ret |-> LET processed_image == preprocess_image(image_np)
                        IN IF IsRaised(processed_image) THEN processed_image
                           ELSE game_info(processed_image)]
    /\ classified' = IF classified = None THEN None ELSE Record(image_np, None)
    /\ UNCHANGED templates

\* --------------------------------------------------- Coordinate Resolver

\* Card names are sequences of characters.
LowerCase == <<"a", "b", "c", "d", "e", "f", "g", "h", "i", "j", "k", "l", "m",
               "n", "o", "p", "q", "r", "s", "t", "u", "v", "w", "x", "y", "z">>
UpperCase == <<"A", "B", "C", "D", "E", "F", "G", "H", "I", "J", "K", "L", "M",
               "N", "O", "P", "Q", "R", "S", "T", "U", "V", "W", "X", "Y", "Z">>

IsLower(c) == \E k \in 1..26 : LowerCase[k] = c
IsUpper(c) == \E k \in 1..26 : UpperCase[k] = c
IsCased(c) == IsLower(c) \/ IsUpper(c)
ToUpper(c) == IF IsLower(c) THEN UpperCase[CHOOSE k \in 1..26 : LowerCase[k] = c] ELSE c
ToLower(c) == IF IsUpper(c) THEN LowerCase[CHOOSE k \in 1..26 : UpperCase[k] = c] ELSE c

\* str.replace('_', ' ')
ReplaceUnderscores(name) == [k \in 1..Len(name) |-> IF name[k] = "_" THEN " " ELSE name[k]]

\* str.title(): a cased character is upper-cased when it starts a run of cased
\* characters and lower-cased when it continues one.
Title(name) ==
    [k \in 1..Len(name) |->
        IF k > 1 /\ IsCased(name[k - 1]) THEN ToLower(name[k]) ELSE ToUpper(name[k])]

\* The key without the title-casing.
template_key_NoTitle(card_name) == ReplaceUnderscores(card_name)

\* Line 436: template_key
template_key(card_name) == Title(ReplaceUnderscores(card_name))

\* The lookup without the check for a stored screenshot: preprocessing None
\* ends in cv2.error.
card_coordinates_NoFrameCheck(card_name) ==
    LET card_template == ItemsGet(card_templates, template_key(card_name))
        screen_gray == preprocess_image(latest_screenshot)
    IN IF card_template = None THEN None
       ELSE IF IsRaised(screen_gray) THEN screen_gray
       ELSE find_template(screen_gray, card_template, LocateThreshold)

\* The value get_card_coordinates returns.
\* A locate that searches the battlefield ROI of the latest frame only.
card_coordinates_Battlefield(card_name) ==
    IF latest_screenshot = None THEN None
    ELSE LET card_template == ItemsGet(card_templates, template_key(card_name))
             screen_gray == preprocess_image(latest_screenshot)
             found == find_template(Crop(screen_gray, battlefield_roi), card_template,
                                    LocateThreshold)
         IN IF card_template = None THEN None
            ELSE IF IsRaised(screen_gray) THEN screen_gray
            ELSE IF found = None \/ IsRaised(found) THEN found
            ELSE Remap(found, battlefield_roi[1], battlefield_roi[2])

card_coordinates(card_name) ==
    IF latest_screenshot = None THEN None
    ELSE LET card_template == ItemsGet(card_templates, template_key(card_name))
             screen_gray == preprocess_image(latest_screenshot)
         IN IF card_template = None THEN None
            ELSE IF IsRaised(screen_gray) THEN screen_gray
            ELSE find_template(screen_gray, card_template, LocateThreshold)

\* VisionSystem.get_card_coordinates(card_name)
get_card_coordinates(card_name) ==
    /\ call' = [op |-> "get_card_coordinates", arg |-> card_name, ret |-> card_coordinates(card_name)]
    /\ UNCHANGED <<templates, latest_screenshot, classified>>


\* ------------------------------------------------------ template stores

Knight == <<"K", "n", "i", "g", "h", "t">>
Archers == <<"A", "r", "c", "h", "e", "r", "s">>
MiniPekka == <<"M", "i", "n", "i", " ", "P", "e", "k", "k", "a">>
Goblin == <<"G", "o", "b", "l", "i", "n">>
Golem == <<"G", "o", "l", "e", "m">>

Item(name, template) == [name |-> name, template |-> template]

Store(cards, ui, enemies) == [cards |-> cards, ui |-> ui, enemies |-> enemies]

\* What _load_templates can leave behind.  Cards and enemy units: one item per
\* image file of the directory, in os.listdir order.  UI elements: any of the
\* five expected ones may be missing, and so may a whole directory.
Stores ==
    { Store(<< Item(Knight, GradRight), Item(Archers, GradLeft) >>,
            ("Battle Indicator" :> GradUp) @@ ("Play Button" :> GradDown) @@
                ("OK Button" :> GradLeft) @@ ("Home Button" :> GradRight) @@
                ("Settings Icon" :> Checker),
            << Item(Goblin, GradDown), Item(Golem, GradLeft) >>),
      Store(<< Item(Archers, GradLeft), Item(Knight, GradRight) >>,
            ("Battle Indicator" :> Checker) @@ ("Play Button" :> GradUp) @@
                ("OK Button" :> GradLeft) @@ ("Home Button" :> GradDown),
            << Item(Golem, GradLeft), Item(Goblin, GradDown) >>),
      Store(<< Item(Knight, GradRight), Item(MiniPekka, Uniform), Item(Archers, Column) >>,
            ("Play Button" :> GradLeft) @@ ("Home Button" :> GradDown),
            << Item(Goblin, Uniform) >>),
      Store(<< >>, << >>, << >>) }

\* --------------------------------------------------------------- frames

\* A black frame of the given size.
Canvas(w, h) ==
    LET black(y, x) == <<0, 0, 0>>
    IN [h |-> h, w |-> w, c |-> 3, px |-> Grid(h, w, black)]

\* A sprite: grayscale art shown in a colour, <<b, g, r>> in 0..1 each, with
\* its top-left corner at (x, y).
Sprite(art, colour, x, y) == [art |-> art, colour |-> colour, x |-> x, y |-> y]

Covers(sprite, x, y) ==
    /\ x >= sprite.x /\ x < sprite.x + sprite.art.w
    /\ y >= sprite.y /\ y < sprite.y + sprite.art.h

Paint(sprite, x, y) ==
    LET v == sprite.art.px[y - sprite.y + 1][x - sprite.x + 1]
    IN <<v * sprite.colour[1], v * sprite.colour[2], v * sprite.colour[3]>>

\* The frame with the sprite drawn over it, clipped to the frame.
Draw(frame, sprite) ==
    LET pixel(y, x) == IF Covers(sprite, x - 1, y - 1) THEN Paint(sprite, x - 1, y - 1)
                       ELSE frame.px[y][x]
    IN [h |-> frame.h, w |-> frame.w, c |-> frame.c, px |-> Grid(frame.h, frame.w, pixel)]

RECURSIVE DrawAll(_, _)
DrawAll(frame, sprites) ==
    IF sprites = << >> THEN frame
    ELSE DrawAll(Draw(frame, Head(sprites)), Tail(sprites))

White == <<1, 1, 1>>
Green == <<0, 1, 0>>

\* What can be on screen: a card at the left and at the right of the hand, a
\* unit on the enemy field, an element of the user interface at the top.
Sprites ==
    << Sprite(GradRight, White, 1, 7),
       Sprite(GradRight, White, 3, 7),
       Sprite(GradDown, Green, 1, 2),
       Sprite(GradUp, White, 4, 0) >>

\* The sprites numbered by the set picked, in their order.
RECURSIVE Pick(_, _)
Pick(picked, k) ==
    IF k > Len(Sprites) THEN << >>
    ELSE (IF k \in picked THEN <<Sprites[k]>> ELSE << >>) \o Pick(picked, k + 1)

\* The screen sizes (w, h): the reference screen, a smaller screen (of the
\* size, at scale, of the frame get_screen substitutes when the capture
\* fails: too short to reach the hand ROI), and one pixel.
FrameSizes == { <<RefW, RefH>>, <<RefW - 2, RefH - 3>>, <<1, 1>> }

\* The frames a capture can deliver.
Screens ==
    { DrawAll(Canvas(size[1], size[2]), Pick(picked, 1)) :
        size \in FrameSizes,
        picked \in { p \in SUBSET (1..Len(Sprites)) : Cardinality(p) <= MaxSprites } }

\* Image data that is no BGR image: a frame that has a single channel already.
GrayFrame == cvtColor(Canvas(RefW, RefH))

\* What a caller can pass for a frame.
Frames == Screens \cup {GrayFrame}

\* The names get_card_coordinates is asked for.
CardNames ==
    { <<"k", "n", "i", "g", "h", "t">>, Archers,
      <<"m", "i", "n", "i", "_", "p", "e", "k", "k", "a">> }

\* ------------------------------------------ the vision API, called freely

Init ==
    /\ \E store \in Stores :
          /\ card_templates = store.cards
          /\ ui_templates = store.ui
          /\ enemy_unit_templates = store.enemies
    /\ latest_screenshot = None
    /\ call = [op |-> "__init__", arg |-> None, ret |-> None]
    /\ classified = Unrecorded
    /\ bot = NoBot
    /\ pending = NoTasks

Next ==
    \/ \E image_np \in Frames : get_current_game_state(image_np) /\ UNCHANGED <<bot, pending>>
    \/ \E image_np \in Frames : analyze_battlefield(image_np) /\ UNCHANGED <<bot, pending>>
    \/ \E card_name \in CardNames : get_card_coordinates(card_name) /\ UNCHANGED <<bot, pending>>

Spec == Init /\ [][Next]_vars

\* --------------------------- the vision API, with the first classification
\* --------------------------- kept on record

\* A blank screen, a hand with one card, and a battle with a card and a unit.
ProbeFrames ==
    { DrawAll(Canvas(RefW, RefH), Pick(picked, 1)) : picked \in { {}, {1}, {2, 4} } }

InitIdem ==
    /\ \E store \in Stores :
          /\ card_templates = store.cards
          /\ ui_templates = store.ui
          /\ enemy_unit_templates = store.enemies
    /\ latest_screenshot = None
    /\ call = [op |-> "__init__", arg |-> None, ret |-> None]
    /\ classified = None
    /\ bot = NoBot
    /\ pending = NoTasks

NextIdem ==
    \/ \E image_np \in ProbeFrames : get_current_game_state(image_np) /\ UNCHANGED <<bot, pending>>
    \/ \E image_np \in ProbeFrames : analyze_battlefield(image_np) /\ UNCHANGED <<bot, pending>>
    \/ get_card_coordinates(Knight) /\ UNCHANGED <<bot, pending>>

SpecIdem == InitIdem /\ [][NextIdem]_vars

\* ------------------------------------- the Region Matcher on small images

\* The grayscale images of w by h pixels with values 0..MaxLevel.
Images(w, h) ==
    { [h |-> h, w |-> w, px |-> rows] : rows \in [1..h -> [1..w -> 0..MaxLevel]] }

SearchImages == Images(1, 1) \cup Images(3, 1) \cup Images(2, 2) \cup {None}
SmallTemplates ==
    Images(1, 1) \cup Images(2, 1) \cup Images(1, 2) \cup Images(3, 1) \cup Images(2, 2)
        \cup {None}
Thresholds == { <<1, 2>>, UiThreshold, CardThreshold, <<1, 1>>, <<11, 10>> }

InitFind ==
    /\ card_templates = << >>
    /\ ui_templates = << >>
    /\ enemy_unit_templates = << >>
    /\ latest_screenshot = None
    /\ classified = Unrecorded
    /\ bot = NoBot
    /\ pending = NoTasks
    /\ \E S \in SearchImages, T \in SmallTemplates, threshold \in Thresholds :
          call = [op |-> "ready", arg |-> <<S, T, threshold>>, ret |-> None]

\* One call of _find_template on the arguments drawn.
FindTemplate ==
    /\ call.op = "ready"
    /\ call' = [op |-> "_find_template", arg |-> call.arg,
                ret |-> find_template(call.arg[1], call.arg[2], call.arg[3])]
    /\ UNCHANGED <<templates, latest_screenshot, classified, bot, pending>>

NextFind == FindTemplate

SpecFind == InitFind /\ [][NextFind]_vars

\* ------------------------------------------------------------ the bot loop

\* The names of the other cards of the strategy's table.
Fireball == <<"F", "i", "r", "e", "b", "a", "l", "l">>
Barbarians == <<"B", "a", "r", "b", "a", "r", "i", "a", "n", "s">>
Giant == <<"G", "i", "a", "n", "t">>
Musketeer == <<"M", "u", "s", "k", "e", "t", "e", "e", "r">>
SpearGoblins == <<"S", "p", "e", "a", "r", " ", "G", "o", "b", "l", "i", "n", "s">>
Tombstone == <<"T", "o", "m", "b", "s", "t", "o", "n", "e">>
Valkyrie == <<"V", "a", "l", "k", "y", "r", "i", "e">>
Wizard == <<"W", "i", "z", "a", "r", "d">>

\* The card_data of StrategyEngine._get_card_properties: name and elixir cost.
card_data ==
    << <<Knight, 3>>, <<Archers, 3>>, <<Fireball, 4>>,
       <<MiniPekka, 4>>, <<Barbarians, 5>>, <<Giant, 5>>,
       <<Musketeer, 4>>, <<SpearGoblins, 2>>, <<Tombstone, 3>>,
       <<Valkyrie, 4>>, <<Wizard, 5>> >>

\* StrategyEngine._get_card_properties(card_name)["elixir_cost"]: the cost in
\* the table; a name that is not in it costs 99.
elixir_cost(card_name) ==
    IF \E i \in 1..Len(card_data) : card_data[i][1] = card_name
    THEN card_data[CHOOSE i \in 1..Len(card_data) : card_data[i][1] = card_name][2]
    ELSE 99

\* StrategyEngine's placement positions, in the pixels of a 720 x 1280 screen.
left_lane_defensive == <<200, 900>>
right_lane_defensive == <<520, 900>>
middle_defensive == <<360, 800>>
middle_offensive == <<360, 500>>

\* A sort that puts the last of the cheapest cards first.
RECURSIVE sorted_LastCheapest(_)
sorted_LastCheapest(cards) ==
    IF cards = << >> THEN << >>
    ELSE LET cheapest(i) == \A j \in 1..Len(cards) :
                                elixir_cost(cards[i].name) <= elixir_cost(cards[j].name)
             last == CHOOSE i \in 1..Len(cards) :
                         cheapest(i) /\ \A j \in (i + 1)..Len(cards) : ~cheapest(j)
         IN <<cards[last]>> \o sorted_LastCheapest(SubSeq(cards, 1, last - 1) \o
                                                   SubSeq(cards, last + 1, Len(cards)))

\* sorted(cards, key = elixir cost): ascending and stable.
RECURSIVE sorted(_)
sorted(cards) ==
    IF cards = << >> THEN << >>
    ELSE LET cheapest(i) == \A j \in 1..Len(cards) :
                                elixir_cost(cards[i].name) <= elixir_cost(cards[j].name)
             first == CHOOSE i \in 1..Len(cards) :
                          cheapest(i) /\ \A j \in 1..(i - 1) : ~cheapest(j)
         IN <<cards[first]>> \o sorted(SubSeq(cards, 1, first - 1) \o
                                        SubSeq(cards, first + 1, Len(cards)))

\* A placement that goes by the last opponent unit.
placement_position_LastEnemy(opponent_units) ==
    LET enemy_x == opponent_units[Len(opponent_units)].position.x
    IN IF opponent_units # << >>
       THEN IF enemy_x * 3 < 720 THEN left_lane_defensive
            ELSE IF enemy_x * 3 > 720 * 2 THEN right_lane_defensive
            ELSE middle_defensive
       ELSE middle_offensive

\* decide_action, lines 109-140: the lane of the first opponent unit, by its
\* x against 720 / 3 and (720 / 3) * 2, or the middle when there is none.
placement_position(opponent_units) ==
    LET enemy_x == opponent_units[1].position.x
    IN IF opponent_units # << >>
       THEN IF enemy_x * 3 < 720 THEN left_lane_defensive
            ELSE IF enemy_x * 3 > 720 * 2 THEN right_lane_defensive
            ELSE middle_defensive
       ELSE middle_offensive

\* StrategyEngine.decide_action(game_info), info here: the action, or None.
decide_action(info) ==
    LET cards_in_hand == info.cards_in_hand
        current_elixir == info.current_elixir
        opponent_units == info.opponent_units
        affordable(card) == elixir_cost(card.name) <= current_elixir
        playable_cards == sorted(SelectSeq(cards_in_hand, affordable))
    IN IF cards_in_hand = << >> THEN None
       ELSE IF playable_cards = << >> THEN None
       ELSE [action_type |-> "play_card", card_name |-> playable_cards[1].name,
             position |-> placement_position(opponent_units)]

\* The screens of a session: blank, a hand with one card, a battle with a
\* card and a unit, a hand with a card under an enemy unit.
LoopFrames ==
    { DrawAll(Canvas(RefW, RefH), Pick(picked, 1)) : picked \in { {}, {1}, {2, 4}, {1, 3} } }

\* One call of the tick, as the trace keeps it.
Event(op, arg, ret) == [op |-> op, arg |-> arg, ret |-> ret]

\* A dispatch that runs the battle handler whatever the state is.
Handler_AlwaysBattle(state) == "handle_battle_state"

\* The dispatch of BotLoop.run on the state the classifier returned: the
\* handler that runs next.  The handler of INITIALIZING does nothing, and
\* STOPPED has none.
Handler(state) ==
    IF state = ON_MENU THEN "handle_menu_state"
    ELSE IF state = IN_BATTLE THEN "handle_battle_state"
    ELSE IF state = POST_GAME THEN "handle_post_game_state"
    ELSE "sleep"

\* BotLoop.run, top of the loop: the screen is captured.  The trace starts
\* anew with every tick.
run_get_screen ==
    /\ bot.pc = "while" /\ bot.running
    /\ \E screen_image \in LoopFrames :
          bot' = [bot EXCEPT !.pc = "classify", !.screen_image = screen_image,
                             !.before = bot.current_state,
                             !.trace = <<Event("get_screen", None, screen_image)>>]
    /\ UNCHANGED <<templates, latest_screenshot, call, classified>>

\* A loop that keeps the POST_GAME its battle handler wrote: the frame is
\* classified, but the result assigned only when the battle is not over.
run_classify_KeepPostGame ==
    /\ bot.pc = "classify"
    /\ get_current_game_state(bot.screen_image)
    /\ LET state == IF bot.current_state = POST_GAME THEN POST_GAME ELSE call'.ret
       IN bot' = [bot EXCEPT !.pc = Handler(state),
                             !.current_state = state,
                             !.trace = Append(@, call')]

\* BotLoop.run: the frame is classified, and the state dispatched on.
run_classify ==
    /\ bot.pc = "classify"
    /\ get_current_game_state(bot.screen_image)
    /\ bot' = [bot EXCEPT !.pc = Handler(call'.ret),
                          !.running = @ /\ call'.ret # STOPPED,
                          !.current_state = call'.ret,
                          !.trace = Append(@, call')]

\* BotLoop._handle_menu_state: nothing yet.
handle_menu_state ==
    /\ bot.pc = "handle_menu_state"
    /\ bot' = [bot EXCEPT !.pc = "sleep"]
    /\ UNCHANGED <<templates, latest_screenshot, call, classified>>

\* BotLoop._handle_post_game_state: back to the menu.
handle_post_game_state ==
    /\ bot.pc = "handle_post_game_state"
    /\ bot' = [bot EXCEPT !.pc = "sleep", !.current_state = ON_MENU]
    /\ UNCHANGED <<templates, latest_screenshot, call, classified>>

\* BotLoop._handle_battle_state, line 100: the screen is captured again, and
\* that frame is analyzed.
handle_battle_state_analyze ==
    /\ bot.pc = "handle_battle_state"
    /\ \E screen_image \in LoopFrames :
          /\ analyze_battlefield(screen_image)
          /\ bot' = [bot EXCEPT !.pc = "decide_action", !.game_info = call'.ret,
                                !.trace = @ \o <<Event("get_screen", None, screen_image), call'>>]

\* BotLoop._handle_battle_state, line 103: the strategy decides.
handle_battle_state_decide ==
    /\ bot.pc = "decide_action"
    /\ LET action == decide_action(bot.game_info)
       IN bot' = [bot EXCEPT !.pc = IF action # None THEN "perform_action" ELSE "end_of_battle",
                             !.action = action,
                             !.trace = Append(@, Event("decide_action", bot.game_info, action))]
    /\ UNCHANGED <<templates, latest_screenshot, call, classified>>

\* The device input of simulate_click_and_drag: adb shell input swipe, from
\* start to end.
Swipe(start, end) == Event("swipe", <<start, end>>, None)

\* A drag that starts in the middle of the hand when the card is not found.
simulate_click_and_drag_Blind(card_name, position) ==
    LET card_hand_location == card_coordinates(card_name)
    IN IF IsRaised(card_hand_location) THEN card_hand_location
       ELSE IF card_hand_location # None THEN <<Swipe(card_hand_location, position)>>
       ELSE <<Swipe([x |-> (hand_roi[1] + hand_roi[3]) \div 2,
                     y |-> (hand_roi[2] + hand_roi[4]) \div 2], position)>>

\* Emulator.simulate_click_and_drag(card_name, position): the device inputs
\* issued, or the error of the locate call.  get_card_location passes the
\* name on to VisionSystem.get_card_coordinates.
simulate_click_and_drag(card_name, position) ==
    LET card_hand_location == card_coordinates(card_name)
    IN IF IsRaised(card_hand_location) THEN card_hand_location
       ELSE IF card_hand_location # None THEN <<Swipe(card_hand_location, position)>>
       ELSE << >>

\* Emulator.perform_action(action): the device inputs issued.  Waiting
\* sleeps, do_nothing does nothing, an unknown type is logged.
perform_action(action) ==
    IF action.action_type = "play_card"
    THEN simulate_click_and_drag(action.card_name, action.position)
    ELSE << >>

\* BotLoop._handle_battle_state, lines 106-107: the action is performed; the
\* locate call it makes is the last call of the vision API then.
handle_battle_state_perform ==
    /\ bot.pc = "perform_action"
    /\ get_card_coordinates(bot.action.card_name)
    /\ LET inputs == IF IsRaised(call'.ret) THEN << >> ELSE perform_action(bot.action)
       IN bot' = [bot EXCEPT !.pc = "end_of_battle",
                             !.trace = @ \o <<Event("perform_action", bot.action, None), call'>>
                                         \o inputs]

\* BotLoop._handle_battle_state, lines 112-113: with one chance in ten the
\* battle is declared over.
handle_battle_state_end ==
    /\ bot.pc = "end_of_battle"
    /\ \E over \in BOOLEAN :
          bot' = [bot EXCEPT !.pc = "sleep",
                             !.current_state = IF over THEN POST_GAME ELSE @]
    /\ UNCHANGED <<templates, latest_screenshot, call, classified>>

\* BotLoop.run, time.sleep(1): the tick is over, its locals are gone.
sleep ==
    /\ bot.pc = "sleep"
    /\ bot' = [bot EXCEPT !.pc = "while", !.screen_image = None,
                          !.game_info = None, !.action = None]
    /\ UNCHANGED <<templates, latest_screenshot, call, classified>>

\* BotLoop.stop(), from outside the loop: the loop ends at its next test.
stop ==
    /\ bot.pc # "none" /\ bot.running
    /\ bot' = [bot EXCEPT !.running = FALSE]
    /\ UNCHANGED <<templates, latest_screenshot, call, classified>>

\* BotLoop.__init__ and start(), every UI template loaded.
InitLoop ==
    /\ \E store \in { st \in Stores : "Battle Indicator" \in DOMAIN st.ui } :
          /\ card_templates = store.cards
          /\ ui_templates = store.ui
          /\ enemy_unit_templates = store.enemies
    /\ latest_screenshot = None
    /\ call = [op |-> "__init__", arg |-> None, ret |-> None]
    /\ classified = Unrecorded
    /\ bot = [pc |-> "while", running |-> TRUE, current_state |-> INITIALIZING,
              before |-> INITIALIZING, screen_image |-> None, game_info |-> None, action |-> None, trace |-> << >>]
    /\ pending = NoTasks

NextLoop ==
    \/ run_get_screen /\ UNCHANGED pending
    \/ run_classify /\ UNCHANGED pending
    \/ handle_menu_state /\ UNCHANGED pending
    \/ handle_post_game_state /\ UNCHANGED pending
    \/ handle_battle_state_analyze /\ UNCHANGED pending
    \/ handle_battle_state_decide /\ UNCHANGED pending
    \/ handle_battle_state_perform /\ UNCHANGED pending
    \/ handle_battle_state_end /\ UNCHANGED pending
    \/ sleep /\ UNCHANGED pending
    \/ stop /\ UNCHANGED pending

SpecLoop == InitLoop /\ [][NextLoop]_vars

\* ------------------------------ the analyzer, its matches run as tasks

\* A match that has not run yet.
NotRun == [run |-> FALSE]

\* The tasks of an analysis: one match per card template when the hand ROI is
\* not empty, one per enemy-unit template when the enemy-field ROI is not.
Tasks(processed_image) ==
    (IF Size(Crop(processed_image, hand_roi)) = 0 THEN {}
     ELSE { <<"card", k>> : k \in 1..Len(card_templates) })
    \cup
    (IF Size(Crop(processed_image, enemy_field_roi)) = 0 THEN {}
     ELSE { <<"enemy", k>> : k \in 1..Len(enemy_unit_templates) })

\* The templates of a namespace in the order of the namespace.
NamespaceOrder(kind, items) == [k \in 1..Len(items) |-> <<kind, k>>]

\* Lines 319-327 and 372-380: the detections of the matches that found
\* something, appended in the order the tasks are listed in.
RECURSIVE Detections(_, _, _, _, _)
Detections(kind, items, found, order, roi) ==
    IF order = << >> THEN << >>
    ELSE LET k == order[1][2]
             rest == Detections(kind, items, found, Tail(order), roi)
         IN IF order[1][1] = kind /\ found[k] # NotRun /\ found[k] # None
            THEN <<[name |-> items[k].name,
                    position |-> Remap(found[k], roi[1], roi[2])]>> \o rest
            ELSE rest

\* The scene with the detections appended as the tasks finished.
Gather_CompletionOrder(p) ==
    LET cards == Detections("card", card_templates, p.cards, p.order, hand_roi)
        units == Detections("enemy", enemy_unit_templates, p.enemies, p.order, enemy_field_roi)
    IN [player_units |-> << >>,
        opponent_units |-> [k \in 1..Len(units) |->
            [name |-> units[k].name, position |-> units[k].position,
             health |-> 100, type |-> "unit"]],
        cards_in_hand |-> [k \in 1..Len(cards) |->
            [name |-> cards[k].name, position |-> cards[k].position,
             elixir_cost |-> 3, type |-> "unit"]],
        current_elixir |-> 10,
        player_tower_health |-> [king |-> 3000, left |-> 2000, right |-> 2000],
        opponent_tower_health |-> [king |-> 3000, left |-> 2000, right |-> 2000],
        game_time_seconds |-> 60]

\* The scene of analyze_battlefield, lines 311-415, from the results of the
\* matches: the for loops go through each namespace in its order.
Gather(p) ==
    LET cards == Detections("card", card_templates, p.cards,
                            NamespaceOrder("card", card_templates), hand_roi)
        units == Detections("enemy", enemy_unit_templates, p.enemies,
                            NamespaceOrder("enemy", enemy_unit_templates), enemy_field_roi)
    IN [player_units |-> << >>,
        opponent_units |-> [k \in 1..Len(units) |->
            [name |-> units[k].name, position |-> units[k].position,
             health |-> 100, type |-> "unit"]],
        cards_in_hand |-> [k \in 1..Len(cards) |->
            [name |-> cards[k].name, position |-> cards[k].position,
             elixir_cost |-> 3, type |-> "unit"]],
        current_elixir |-> 10,
        player_tower_health |-> [king |-> 3000, left |-> 2000, right |-> 2000],
        opponent_tower_health |-> [king |-> 3000, left |-> 2000, right |-> 2000],
        game_time_seconds |-> 60]

\* analyze_battlefield, lines 289-290: the frame is stored and preprocessed;
\* every match is yet to run.
analyze_begin(image_np) ==
    /\ pending.pc \in {"idle", "done"}
    /\ latest_screenshot' = image_np
    /\ pending' = [pc |-> "matching", image |-> image_np,
                   processed |-> preprocess_image(image_np),
                   cards |-> [k \in 1..Len(card_templates) |-> NotRun],
                   enemies |-> [k \in 1..Len(enemy_unit_templates) |-> NotRun],
                   order |-> << >>]
    /\ UNCHANGED <<templates, call, classified, bot>>

\* Lines 314 and 368: one match, of any template whose match has not run,
\* whatever the others have done.
analyze_match(task) ==
    /\ pending.pc = "matching"
    /\ task \in Tasks(pending.processed)
    /\ task \notin { pending.order[i] : i \in 1..Len(pending.order) }
    /\ LET k == task[2]
       IN pending' =
            IF task[1] = "card"
            THEN [pending EXCEPT
                    !.cards[k] = find_template(Crop(pending.processed, hand_roi),
                                               card_templates[k].template, CardThreshold),
                    !.order = Append(@, task)]
            ELSE [pending EXCEPT
                    !.enemies[k] = find_template(Crop(pending.processed, enemy_field_roi),
                                                 enemy_unit_templates[k].template, UnitThreshold),
                    !.order = Append(@, task)]
    /\ UNCHANGED <<templates, latest_screenshot, call, classified, bot>>

\* Lines 407-419: every match has run, and the scene is returned.
analyze_gather ==
    /\ pending.pc = "matching"
    /\ Tasks(pending.processed) = { pending.order[i] : i \in 1..Len(pending.order) }
    /\ call' = [op |-> "analyze_battlefield", arg |-> pending.image, ret |-> Gather(pending)]
    /\ pending' = [pending EXCEPT !.pc = "done"]
    /\ UNCHANGED <<templates, latest_screenshot, classified, bot>>

\* The frames analyzed this way: the screens of a session, and one too
\* small to reach the hand ROI.
TaskFrames ==
    { DrawAll(Canvas(RefW, RefH), Pick(picked, 1)) : picked \in { {1}, {2, 4}, {1, 3} } }
    \cup { DrawAll(Canvas(RefW - 2, RefH - 3), Pick({3}, 1)) }

InitTasks ==
    /\ \E store \in Stores :
          /\ card_templates = store.cards
          /\ ui_templates = store.ui
          /\ enemy_unit_templates = store.enemies
    /\ latest_screenshot = None
    /\ call = [op |-> "__init__", arg |-> None, ret |-> None]
    /\ classified = Unrecorded
    /\ bot = NoBot
    /\ pending = [pc |-> "idle"]

NextTasks ==
    \/ \E image_np \in TaskFrames : analyze_begin(image_np)
    \/ \E task \in {"card", "enemy"} \X (1..3) : analyze_match(task)
    \/ analyze_gather

SpecTasks == InitTasks /\ [][NextTasks]_vars

\* ------------------------------------------ the strategy on drawn scenes

\* A card as analyze_battlefield lists it.
HandCard(name) ==
    [name |-> name, position |-> [x |-> 3, y |-> 8], elixir_cost |-> 3, type |-> "unit"]

\* An opponent unit as analyze_battlefield lists it.
EnemyUnit(x) ==
    [name |-> Goblin, position |-> [x |-> x, y |-> 300], health |-> 100, type |-> "unit"]

\* Longest hand drawn.
MaxHand == 3

\* Hands of up to MaxHand cards: cards of the table with costs 2, 3, 3 and
\* 4, and a name that is not in it.
Hands ==
    LET names == {SpearGoblins, Knight, Archers, MiniPekka, Goblin}
    IN UNION { [1..n -> { HandCard(name) : name \in names }] : n \in 0..MaxHand }

\* Elixir counts around the costs, and one above the cost of unknown cards.
Elixirs == {0, 2, 3, 4, 10, 100}

\* No opponent unit, one, or two, with x at and next to the lane borders.
Opponents ==
    LET xs == {0, 239, 240, 241, 479, 480, 481, 719}
    IN {<< >>} \cup { <<EnemyUnit(x)>> : x \in xs }
               \cup { <<EnemyUnit(x), EnemyUnit(other)>> : x \in xs, other \in {0, 360, 719} }

InitDecide ==
    /\ card_templates = << >>
    /\ ui_templates = << >>
    /\ enemy_unit_templates = << >>
    /\ latest_screenshot = None
    /\ classified = Unrecorded
    /\ bot = NoBot
    /\ pending = NoTasks
    /\ \E hand \in Hands, elixir \in Elixirs, units \in Opponents :
          call = [op |-> "ready",
                  arg |-> [game_info(preprocess_image(Canvas(1, 1))) EXCEPT
                              !.cards_in_hand = hand,
                              !.current_elixir = elixir, !.opponent_units = units],
                  ret |-> None]

\* One call of StrategyEngine.decide_action on the scene drawn.
DecideAction ==
    /\ call.op = "ready"
    /\ call' = [op |-> "decide_action", arg |-> call.arg, ret |-> decide_action(call.arg)]
    /\ UNCHANGED <<templates, latest_screenshot, classified, bot, pending>>

NextDecide == DecideAction

SpecDecide == InitDecide /\ [][NextDecide]_vars

\* --------------------------------------------- the emulator on drawn actions

\* The actions a strategy can hand over: a card to play, by a name as the
\* analyzer lists it or by another, a wait, do_nothing, and a type that
\* perform_action does not know.
Actions ==
    { [action_type |-> "play_card", card_name |-> name, position |-> position] :
        name \in {Knight, Archers, MiniPekka, Goblin, <<"k", "n", "i", "g", "h", "t">>},
        position \in {middle_offensive, left_lane_defensive} }
    \cup { [action_type |-> "wait", duration |-> 1],
           [action_type |-> "do_nothing"],
           [action_type |-> "dance"] }

\* Any store, and any latest frame of a session or none yet.
InitPerform ==
    /\ \E store \in Stores :
          /\ card_templates = store.cards
          /\ ui_templates = store.ui
          /\ enemy_unit_templates = store.enemies
    /\ latest_screenshot \in LoopFrames \cup {None}
    /\ classified = Unrecorded
    /\ bot = NoBot
    /\ pending = NoTasks
    /\ \E action \in Actions : call = [op |-> "ready", arg |-> action, ret |-> None]

\* One call of Emulator.perform_action on the action drawn.
PerformAction ==
    /\ call.op = "ready"
    /\ call' = [op |-> "perform_action", arg |-> call.arg, ret |-> perform_action(call.arg)]
    /\ UNCHANGED <<templates, latest_screenshot, classified, bot, pending>>

NextPerform == PerformAction

SpecPerform == InitPerform /\ [][NextPerform]_vars

\* ------------------------------ the cards of a scene, looked up afterwards

\* The names under which analyze_battlefield lists cards.
ListedNames == {Knight, Archers, MiniPekka}

NextHand ==
    \/ \E image_np \in Screens : analyze_battlefield(image_np) /\ UNCHANGED <<bot, pending>>
    \/ \E card_name \in ListedNames :
          /\ call.op # "__init__"
          /\ get_card_coordinates(card_name) /\ UNCHANGED <<bot, pending>>

SpecHand == Init /\ [][NextHand]_vars

\* ============================================================ properties

\* T matches in S at the threshold: T and S are there, T fits in S, and at
\* some alignment the correlation reaches the threshold.
Matches(S, T, threshold) ==
    /\ T # None /\ S # None
    /\ T.h <= S.h /\ T.w <= S.w
    /\ \E a \in Alignments(S, T) : ScoreGE(CCoeffNormed(S, T, a[1], a[2]), AsScore(threshold))

\* The UI template of that name matches, at 0.7, in the frame of the last call.
UiMatches(name) ==
    Matches(preprocess_image(call.arg), DictGet(ui_templates, name), UiThreshold)

\* The last call classified a frame that is a BGR image.
Classified == call.op = "get_current_game_state" /\ Convertible(call.arg)

\* C1: the classifier consults battle indicator, play button, ok button and
\* home button in this order, and the first of them that matches at 0.7
\* decides: in-battle, on-menu, post-game, on-menu.  Battle indicator and play
\* button both matching gives in-battle.
C1_RuleOrder ==
    Classified =>
        /\ UiMatches("Battle Indicator") => call.ret = IN_BATTLE
        /\ ~UiMatches("Battle Indicator") /\ UiMatches("Play Button") => call.ret = ON_MENU
        /\ ~UiMatches("Battle Indicator") /\ ~UiMatches("Play Button")
              /\ UiMatches("OK Button") => call.ret = POST_GAME
        /\ ~UiMatches("Battle Indicator") /\ ~UiMatches("Play Button")
              /\ ~UiMatches("OK Button") /\ UiMatches("Home Button") => call.ret = ON_MENU

\* A frame on which battle indicator and play button both match was
\* classified as in-battle.
C1_Witness ==
    /\ Classified
    /\ UiMatches("Battle Indicator") /\ UiMatches("Play Button")
    /\ call.ret = IN_BATTLE

\* C2: a frame on which none of the four UI templates matches at 0.7 is
\* classified as in-battle.
C2_Fallback ==
    Classified
        /\ ~UiMatches("Battle Indicator") /\ ~UiMatches("Play Button")
        /\ ~UiMatches("OK Button") /\ ~UiMatches("Home Button")
    => call.ret = IN_BATTLE

\* UI templates are loaded, the frame is not blank, and none of the four
\* matches: in-battle.
C2_Witness ==
    /\ Classified
    /\ DOMAIN ui_templates # {}
    /\ ~UiMatches("Battle Indicator") /\ ~UiMatches("Play Button")
    /\ ~UiMatches("OK Button") /\ ~UiMatches("Home Button")
    /\ call.arg # Canvas(call.arg.w, call.arg.h)
    /\ call.ret = IN_BATTLE

\* ---- the Region Matcher (SpecFind)

Found == call.op = "_find_template"
FindS == call.arg[1]
FindT == call.arg[2]
FindThreshold == call.arg[3]

\* Both images are there and the template is no larger than the search image.
Fits == FindS # None /\ FindT # None /\ FindT.h <= FindS.h /\ FindT.w <= FindS.w

ScoreAt(a) == CCoeffNormed(FindS, FindT, a[1], a[2])
CentreAt(a) == [x |-> a[1] + (FindT.w \div 2), y |-> a[2] + (FindT.h \div 2)]

\* The alignment has the maximum score of all alignments.
IsBest(a) == \A b \in Alignments(FindS, FindT) : ScoreGE(ScoreAt(a), ScoreAt(b))

\* C3: for T no larger than S, find returns a coordinate exactly when the
\* maximum score over all alignments is at least the threshold (inclusive),
\* and the coordinate is (left + width(T) \div 2, top + height(T) \div 2) of an
\* alignment of maximum score; otherwise it returns None.
C3_FoundIffThreshold ==
    Found /\ Fits =>
        /\ (call.ret # None) <=> Matches(FindS, FindT, FindThreshold)
        /\ call.ret # None =>
              \E a \in Alignments(FindS, FindT) : IsBest(a) /\ call.ret = CentreAt(a)

\* A match whose best score equals the threshold: a template with contrast,
\* threshold 1.0, several alignments of which the best is not the first.
C3_Witness ==
    /\ Found /\ Fits
    /\ FindThreshold = <<1, 1>>
    /\ Cov(Flat(FindT), Flat(FindT)) > 0
    /\ call.ret # None
    /\ call.ret # CentreAt(<<0, 0>>)

\* One of the images is absent, or the template is taller or wider than the
\* search image.
Unmatchable ==
    \/ FindS = None
    \/ FindT = None
    \/ FindT.h > FindS.h
    \/ FindT.w > FindS.w

\* C4: when the search image or the template is absent, or the template is
\* taller or wider than the search image, find returns None and does not raise.
C4_GuardsReturnNone == Found /\ Unmatchable => call.ret = None

\* A template wider than the search image was answered with None.
C4_Witness ==
    /\ Found /\ FindS # None /\ FindT # None
    /\ FindT.w > FindS.w
    /\ call.ret = None

\* S holds an exact copy of T at the alignment a.
CopyAt(a) == Window(FindS, FindT, a[1], a[2]) = Flat(FindT)

\* The place of an alignment in the scan of the result: row by row.
ScanRank(a) == a[2] * (FindS.w - FindT.w + 1) + a[1]

\* The alignment correlates perfectly with the template.
Perfect(a) == ScoreGE(ScoreAt(a), <<1, 1>>)

Analyzed == call.op = "analyze_battlefield" /\ Convertible(call.arg)

\* The preprocessed frame of the last call, cropped to the ROI.
HandCrop == Crop(preprocess_image(call.arg), hand_roi)
EnemyCrop == Crop(preprocess_image(call.arg), enemy_field_roi)

\* The detection's position is what find returns for the template of that
\* name inside the crop, moved by the ROI's (left, top).
Remapped(detection, items, crop, threshold, roi) ==
    LET local == find_template(crop, ItemsGet(items, detection.name), threshold)
    IN /\ local # None
       /\ detection.position = [x |-> local.x + roi[1], y |-> local.y + roi[2]]

\* C7: the position of every detected card is the match coordinate inside the
\* hand-ROI crop plus the hand ROI's (left, top), and the position of every
\* detected enemy unit is the match coordinate inside the enemy-field crop plus
\* the enemy-field ROI's (left, top).
C7_RoiRemapping ==
    Analyzed =>
        /\ \A k \in DOMAIN call.ret.cards_in_hand :
              Remapped(call.ret.cards_in_hand[k], card_templates, HandCrop, CardThreshold, hand_roi)
        /\ \A k \in DOMAIN call.ret.opponent_units :
              Remapped(call.ret.opponent_units[k], enemy_unit_templates, EnemyCrop, UnitThreshold,
                       enemy_field_roi)

\* A card and an enemy unit were detected in one frame, each at its
\* full-screen position.
C7_Witness ==
    /\ Analyzed
    /\ call.ret.cards_in_hand # << >> /\ call.ret.opponent_units # << >>
    /\ Remapped(call.ret.cards_in_hand[1], card_templates, HandCrop, CardThreshold, hand_roi)
    /\ Remapped(call.ret.opponent_units[1], enemy_unit_templates, EnemyCrop, UnitThreshold,
                enemy_field_roi)
    /\ call.ret.cards_in_hand[1].position.y >= hand_roi[2]
    /\ call.ret.opponent_units[1].position.y < hand_roi[2]

\* The ROI, clamped to the bounds of the image, holds no pixel.
ClampedEmpty(img, roi) ==
    \/ Min(img.w, roi[3]) <= Max(0, roi[1])
    \/ Min(img.h, roi[4]) <= Max(0, roi[2])

\* C8: when the hand ROI clamped to the frame is empty, analyze returns a
\* scene with no detected cards and raises nothing; when the enemy-field ROI
\* clamped to the frame is empty, a scene with no detected enemy units.
C8_EmptyRoi ==
    Analyzed =>
        /\ ~IsRaised(call.ret)
        /\ ClampedEmpty(call.arg, hand_roi) => call.ret.cards_in_hand = << >>
        /\ ClampedEmpty(call.arg, enemy_field_roi) => call.ret.opponent_units = << >>

\* A frame too small to reach the hand ROI, but not blank and large enough
\* for the card templates, was analyzed with cards loaded: no card.
C8_Witness ==
    /\ Analyzed
    /\ card_templates # << >>
    /\ ClampedEmpty(call.arg, hand_roi)
    /\ \E k \in DOMAIN card_templates :
          Matches(preprocess_image(call.arg), card_templates[k].template, CardThreshold)
    /\ call.ret.cards_in_hand = << >>

\* The names of the detections are pairwise distinct.
DistinctNames(detected) ==
    \A i, j \in DOMAIN detected : detected[i].name = detected[j].name => i = j

\* C9: in one scene every card template accounts for at most one detected
\* card and every enemy-unit template for at most one detected enemy unit:
\* the names of each sequence are pairwise distinct and the sequence is no
\* longer than its namespace.
C9_OnePerTemplate ==
    Analyzed =>
        /\ DistinctNames(call.ret.cards_in_hand)
        /\ Len(call.ret.cards_in_hand) <= Len(card_templates)
        /\ DistinctNames(call.ret.opponent_units)
        /\ Len(call.ret.opponent_units) <= Len(enemy_unit_templates)

\* A card template with contrast reaches the threshold at two alignments of
\* the hand crop, and the scene holds one detection of it.
C9_Witness ==
    /\ Analyzed
    /\ \E k \in DOMAIN card_templates :
          LET T == card_templates[k].template
          IN /\ Cov(Flat(T), Flat(T)) > 0
             /\ T.h <= HandCrop.h /\ T.w <= HandCrop.w
             /\ \E a, b \in Alignments(HandCrop, T) :
                   /\ a # b
                   /\ ScoreGE(CCoeffNormed(HandCrop, T, a[1], a[2]), AsScore(CardThreshold))
                   /\ ScoreGE(CCoeffNormed(HandCrop, T, b[1], b[2]), AsScore(CardThreshold))
             /\ Cardinality({ i \in DOMAIN call.ret.cards_in_hand :
                                call.ret.cards_in_hand[i].name = card_templates[k].name }) = 1

\* The place of a name in the namespace.
IndexOf(items, name) == CHOOSE k \in DOMAIN items : items[k].name = name

\* The detections come in the order of the namespace.
InNamespaceOrder(detected, items) ==
    \A i, j \in DOMAIN detected :
        i < j => IndexOf(items, detected[i].name) < IndexOf(items, detected[j].name)

\* C10: the detected cards and the detected enemy units are subsequences of
\* the iteration order of their namespace: of two detected templates the one
\* earlier in the namespace comes first, wherever the two are on screen.
C10_NamespaceOrder ==
    Analyzed =>
        /\ InNamespaceOrder(call.ret.cards_in_hand, card_templates)
        /\ InNamespaceOrder(call.ret.opponent_units, enemy_unit_templates)

\* Two cards were detected, the first of the namespace to the right of the
\* second on screen, and it comes first in the scene.
C10_Witness ==
    /\ Analyzed
    /\ Len(call.ret.cards_in_hand) = 2
    /\ IndexOf(card_templates, call.ret.cards_in_hand[1].name)
          < IndexOf(card_templates, call.ret.cards_in_hand[2].name)
    /\ call.ret.cards_in_hand[1].position.x > call.ret.cards_in_hand[2].position.x

\* ---- the Coordinate Resolver (Spec)

Located == call.op = "get_card_coordinates"

\* C11: get_card_coordinates called while no screenshot is stored, that is
\* before any get_current_game_state or analyze_battlefield call, returns
\* None for every card name and raises nothing.
C11_NoFrameNotFound == Located /\ latest_screenshot = None => call.ret = None

\* A card whose template is loaded was asked for before any frame was seen.
C11_Witness ==
    /\ Located /\ latest_screenshot = None
    /\ ItemsGet(card_templates, template_key(call.arg)) # None
    /\ call.ret = None

\* The normalized form of a card name made of letters, spaces and
\* underscores: every underscore a space, the first letter of every word in
\* upper case and its other letters in lower case.
Normalized(name) ==
    [k \in 1..Len(name) |->
        IF name[k] = "_" THEN " "
        ELSE IF k = 1 \/ name[k - 1] \in {"_", " "} THEN ToUpper(name[k])
        ELSE ToLower(name[k])]

\* The card template stored under the normalized name asked for, or None.
LocateTemplate == ItemsGet(card_templates, Normalized(call.arg))

\* C12: with a screenshot stored, get_card_coordinates returns None when the
\* card namespace has no template under the normalized name, and otherwise
\* the result of matching that template over the whole of the latest frame at
\* 0.8: a coordinate exactly when some alignment anywhere in the frame reaches
\* 0.8, the centre of a best alignment.
C12_NormalizedWholeFrame ==
    Located /\ latest_screenshot # None /\ Convertible(latest_screenshot) =>
        LET T == LocateTemplate
            S == preprocess_image(latest_screenshot)
            fits == T.h <= S.h /\ T.w <= S.w
            res == matchTemplate(S, T).res
            score(a) == res[a[2] + 1][a[1] + 1]
            reached == fits /\ \E a \in Alignments(S, T) : ScoreGE(score(a), AsScore(LocateThreshold))
        IN /\ T = None => call.ret = None
           /\ T # None =>
                 /\ (call.ret # None) <=> reached
                 /\ call.ret # None =>
                       \E a \in Alignments(S, T) :
                           /\ \A b \in Alignments(S, T) : ScoreGE(score(a), score(b))
                           /\ call.ret = [x |-> a[1] + (T.w \div 2), y |-> a[2] + (T.h \div 2)]

\* A name that is not in normalized form was found through its normalized
\* form, at a place above the hand ROI.
C12_Witness ==
    /\ Located /\ latest_screenshot # None /\ Convertible(latest_screenshot)
    /\ call.arg # Normalized(call.arg)
    /\ LocateTemplate # None
    /\ call.ret # None
    /\ call.ret.y < hand_roi[2]

\* C13: every get_current_game_state and every analyze_battlefield call
\* leaves its own frame in latest_screenshot, and get_card_coordinates and
\* _find_template leave latest_screenshot as it was: the frame that
\* get_card_coordinates searches is that of the most recent of those calls.
C13_LatestFrame ==
    [][/\ call'.op \in {"get_current_game_state", "analyze_battlefield"}
          => latest_screenshot' = call'.arg
       /\ call'.op \in {"get_card_coordinates", "_find_template"}
          => latest_screenshot' = latest_screenshot]_vars

\* A card was looked up in the frame of an analyze_battlefield call that
\* followed a get_current_game_state call on another frame.
C13_Witness ==
    /\ Located
    /\ latest_screenshot # None /\ Convertible(latest_screenshot)
    /\ classified # Unrecorded /\ classified # None
    /\ classified.later
    /\ latest_screenshot # classified.frame
    /\ call.ret # None

\* ---- blank frames (Spec)

\* The frame is all zero.
Blank(img) == img = Canvas(img.w, img.h)

\* The template has one intensity throughout.
IsUniform(T) == Cov(Flat(T), Flat(T)) = 0

Rules == << <<"Battle Indicator", IN_BATTLE>>, <<"Play Button", ON_MENU>>,
            <<"OK Button", POST_GAME>>, <<"Home Button", ON_MENU>> >>

\* The rules whose template is in the UI namespace, in their order.
LoadedRules ==
    LET loaded(rule) == rule[1] \in DOMAIN ui_templates
    IN SelectSeq(Rules, loaded)

\* C20: a UI template that is not loaded only takes its own rule out: the
\* classifier raises nothing and answers as the first matching rule among
\* the loaded ones says, in-battle when none matches, hence in-battle for
\* every frame when the UI namespace is empty; with empty card and enemy
\* namespaces the analyzer returns empty sequences.
C20_AbsentTemplateSoft ==
    /\ Classified =>
          LET S == preprocess_image(call.arg)
              hit(i) == Matches(S, ui_templates[LoadedRules[i][1]], UiThreshold)
              hits == { i \in 1..Len(LoadedRules) : hit(i) }
          IN /\ call.ret \in {IN_BATTLE, ON_MENU, POST_GAME}
             /\ hits = {} => call.ret = IN_BATTLE
             /\ \A i \in hits : (\A j \in hits : i <= j) => call.ret = LoadedRules[i][2]
             /\ DOMAIN ui_templates = {} => call.ret = IN_BATTLE
    /\ Analyzed =>
          /\ ~IsRaised(call.ret)
          /\ Len(card_templates) = 0 => call.ret.cards_in_hand = << >>
          /\ Len(enemy_unit_templates) = 0 => call.ret.opponent_units = << >>

\* Battle indicator and ok button are not loaded, the play button is loaded
\* and does not match, the home button matches: on-menu.
C20_Witness ==
    /\ Classified
    /\ DOMAIN ui_templates = {"Play Button", "Home Button"}
    /\ ~Matches(preprocess_image(call.arg), ui_templates["Play Button"], UiThreshold)
    /\ Matches(preprocess_image(call.arg), ui_templates["Home Button"], UiThreshold)
    /\ call.ret = ON_MENU

\* C18: no call of the vision API changes a template namespace, and the
\* frame an analyze_battlefield call was given, which latest_screenshot
\* refers to from then on, is after the call what it was when it was passed.
C18_TemplatesAndFrameUntouched ==
    [][/\ card_templates' = card_templates
       /\ ui_templates' = ui_templates
       /\ enemy_unit_templates' = enemy_unit_templates
       /\ call'.op = "analyze_battlefield" => latest_screenshot' = call'.arg]_vars

\* A frame that reaches the hand ROI was analyzed with templates loaded, a
\* card was detected in it, and the frame is as it was passed.
C18_Witness ==
    /\ Analyzed
    /\ ~ClampedEmpty(call.arg, hand_roi)
    /\ Len(card_templates) > 0 /\ DOMAIN ui_templates # {}
    /\ Len(call.ret.cards_in_hand) > 0
    /\ latest_screenshot = call.arg

\* The places of the calls of that name in the trace of the tick.
TickCalls(op) == { i \in 1..Len(bot.trace) : bot.trace[i].op = op }

\* The tick was classified as one of these phases.
TickClassifiedAs(states) ==
    \E i \in TickCalls("get_current_game_state") : bot.trace[i].ret \in states

\* C14: in every tick the analyzer is called only after the classification
\* of the tick, and only when that returned in-battle; a tick classified
\* in-battle has called it by its end; the decision layer is given exactly
\* the scene the analyzer returned; a tick classified on-menu or post-game
\* has no analysis, no decision and no device action.
C14_AnalyzeIffInBattle ==
    /\ \A i \in TickCalls("analyze_battlefield") :
          \E j \in TickCalls("get_current_game_state") :
              j < i /\ bot.trace[j].ret = IN_BATTLE
    /\ bot.pc = "sleep" /\ TickClassifiedAs({IN_BATTLE})
          => TickCalls("analyze_battlefield") # {}
    /\ \A i \in TickCalls("decide_action") :
          /\ i > 1 /\ bot.trace[i - 1].op = "analyze_battlefield"
          /\ bot.trace[i].arg = bot.trace[i - 1].ret
    /\ TickClassifiedAs({ON_MENU, POST_GAME})
          => TickCalls("analyze_battlefield") \cup TickCalls("decide_action")
               \cup TickCalls("perform_action") \cup TickCalls("get_card_coordinates")
               \cup TickCalls("swipe") = {}

\* A tick classified in-battle has ended after an analysis, a decision and
\* a swipe.
C14_Witness ==
    /\ bot.pc = "sleep"
    /\ TickClassifiedAs({IN_BATTLE})
    /\ TickCalls("analyze_battlefield") # {}
    /\ TickCalls("decide_action") # {}
    /\ TickCalls("swipe") # {}

\* C15: no tick captures the screen more than once.
C15_OneCapturePerTick == Cardinality(TickCalls("get_screen")) <= 1

Dispatched ==
    bot.pc \in {"handle_menu_state", "handle_battle_state", "handle_post_game_state"}

\* C21: the handler that runs in a tick is the one of the phase classified
\* from the frame captured in that tick, whatever a handler of the tick
\* before wrote to current_state, and current_state is that phase then.
C21_HandlerOfThisTick ==
    Dispatched =>
        /\ Len(bot.trace) = 2
        /\ bot.trace[1].op = "get_screen"
        /\ bot.trace[2].op = "get_current_game_state"
        /\ bot.trace[2].arg = bot.trace[1].ret
        /\ bot.current_state = bot.trace[2].ret
        /\ bot.trace[2].ret = ON_MENU => bot.pc = "handle_menu_state"
        /\ bot.trace[2].ret = IN_BATTLE => bot.pc = "handle_battle_state"
        /\ bot.trace[2].ret = POST_GAME => bot.pc = "handle_post_game_state"

\* The battle handler of the tick before left POST_GAME in current_state,
\* this tick's frame was classified in-battle, and the battle handler runs.
C21_Witness ==
    /\ bot.pc = "handle_battle_state"
    /\ bot.before = POST_GAME
    /\ bot.trace[2].ret = IN_BATTLE
    /\ bot.current_state = IN_BATTLE

\* The strategy has decided on the scene call.arg.
Decided == call.op = "decide_action"

\* The places in the hand of the cards whose table cost the elixir covers.
Affordable ==
    { i \in 1..Len(call.arg.cards_in_hand) :
        elixir_cost(call.arg.cards_in_hand[i].name) <= call.arg.current_elixir }

\* C22: decide_action returns no action exactly when no card of the hand
\* has a table cost within the current elixir; otherwise it returns a
\* play_card action for the earliest of the affordable cards of least cost.
C22_CheapestAffordableFirst ==
    Decided =>
        LET hand == call.arg.cards_in_hand
            cost(i) == elixir_cost(hand[i].name)
            chosen(i) == /\ \A j \in Affordable : cost(i) <= cost(j)
                         /\ \A j \in Affordable : j < i => cost(i) < cost(j)
        IN /\ call.ret = None <=> Affordable = {}
           /\ \A i \in Affordable :
                 chosen(i) => /\ call.ret.action_type = "play_card"
                              /\ call.ret.card_name = hand[i].name

\* Of three cards, the first is too dear for the elixir, and the other two
\* share the least cost and differ in name: the second card is played.
C22_Witness ==
    /\ Decided
    /\ Len(call.arg.cards_in_hand) = 3
    /\ Affordable = {2, 3}
    /\ elixir_cost(call.arg.cards_in_hand[2].name) = elixir_cost(call.arg.cards_in_hand[3].name)
    /\ call.arg.cards_in_hand[2].name # call.arg.cards_in_hand[3].name
    /\ call.ret # None
    /\ call.ret.card_name = call.arg.cards_in_hand[2].name

\* C23: the position of a play_card action is (200, 900) when the x of the
\* first opponent unit is below 240, (520, 900) when it is above 480,
\* (360, 800) otherwise, and (360, 500) when there is no opponent unit.
C23_PositionByFirstEnemy ==
    Decided /\ call.ret # None =>
        LET units == call.arg.opponent_units
            x == units[1].position.x
        IN /\ call.ret.position \in {<<200, 900>>, <<520, 900>>, <<360, 800>>, <<360, 500>>}
           /\ units = << >> => call.ret.position = <<360, 500>>
           /\ units # << >> /\ x < 240 => call.ret.position = <<200, 900>>
           /\ units # << >> /\ x > 480 => call.ret.position = <<520, 900>>
           /\ units # << >> /\ x >= 240 /\ x <= 480 => call.ret.position = <<360, 800>>

\* The first opponent unit is on the border of the right lane, x = 480, and
\* a second one in the left lane: the card goes to the middle.
C23_Witness ==
    /\ Decided /\ call.ret # None
    /\ Len(call.arg.opponent_units) = 2
    /\ call.arg.opponent_units[1].position.x = 480
    /\ call.arg.opponent_units[2].position.x = 0
    /\ call.ret.position = <<360, 800>>

\* An action has been performed.
Performed == call.op = "perform_action"

\* C24: performing a play_card action issues one swipe, from the
\* coordinate locate returns for the card to the position of the action,
\* when locate finds the card in the latest frame, and no device input when
\* it does not; any other action issues no device input.
C24_SwipeIffLocated ==
    Performed =>
        LET action == call.arg
            location == card_coordinates(action.card_name)
        IN IF action.action_type = "play_card"
           THEN IF location = None THEN call.ret = << >>
                ELSE /\ Len(call.ret) = 1
                     /\ call.ret[1].op = "swipe"
                     /\ call.ret[1].arg = <<location, action.position>>
           ELSE call.ret = << >>

\* A card whose template is loaded was to be played on a frame that does not
\* show it: nothing was sent to the device.
C24_Witness ==
    /\ Performed
    /\ call.arg.action_type = "play_card"
    /\ latest_screenshot # None
    /\ ItemsGet(card_templates, call.arg.card_name) # None
    /\ card_coordinates(call.arg.card_name) = None
    /\ call.ret = << >>

\* The cards in the scene of the frame analyzed last, which is the latest
\* frame until the next analyze or classify call.
ListedCards == detected_cards_in_hand(preprocess_image(latest_screenshot))

\* C25: a card that the scene of the latest frame lists is found when it is
\* located by the name it is listed under.
C25_ListedCardLocated ==
    Located /\ latest_screenshot # None =>
        LET listed == ListedCards
        IN \A k \in 1..Len(listed) :
              listed[k].name = call.arg => call.ret # None /\ ~IsRaised(call.ret)

\* A listed card was located somewhere else than the scene reports it.
C25_Witness ==
    /\ Located /\ latest_screenshot # None
    /\ \E k \in 1..Len(ListedCards) :
          /\ ListedCards[k].name = call.arg
          /\ call.ret # None
          /\ call.ret # ListedCards[k].position

\* C26: the classification of a tick is on-menu, in-battle or post-game
\* and one of the three handlers runs on it, never the INITIALIZING or the
\* STOPPED branch; and running becomes false by a stop() call only, a step
\* that changes nothing else of the loop.
C26_LoopOnlyStoppedFromOutside ==
    [][/\ bot.pc = "classify" /\ bot'.pc # "classify"
          => /\ call'.ret \in {ON_MENU, IN_BATTLE, POST_GAME}
             /\ bot'.current_state = call'.ret
             /\ bot'.pc \in {"handle_menu_state", "handle_battle_state",
                              "handle_post_game_state"}
       /\ bot.running /\ ~bot'.running
          => bot' = [bot EXCEPT !.running = FALSE]]_vars

\* A tick classified post-game is over, nobody has called stop(), and the
\* loop is at its test again and goes on.
C26_Witness ==
    /\ bot.pc = "while" /\ bot.running
    /\ Len(bot.trace) = 2
    /\ bot.trace[2].ret = POST_GAME
    /\ bot.current_state = ON_MENU


====
